---- MODULE Spec2Model ----
(***************************************************************************)
(* Model of the vacation-planning driver scripts: vp8.js (workflow run by  *)
(* agency.executeWorkflow), the two scripts of vp9.js (team.run, and the   *)
(* manual ten-step workflow) and the single-agent script (runAgent).       *)
(*                                                                         *)
(* JavaScript strings are sequences of one-character strings, so that      *)
(* titleize, JSON.stringify and the console/HTML templates are computed    *)
(* character by character.                                                 *)
(***************************************************************************)
EXTENDS Integers, Sequences, FiniteSets, TLC

VARIABLES
    script,       \* which driver script runs
    apiKey,       \* process.env.GEMINI_API_KEY is set
    configOk,     \* the configuration file exists and parses
    briefs,       \* identifiers under config.brief
    argBrief,     \* process.argv[2] (vp8.js), NoArg when not given
    teamPresent,  \* config.team.vacationTeam exists
    agents,       \* agent identifiers created from the configuration
    workflow,     \* config.team.vacationTeam.workflow
    pc,           \* position in main()
    step,         \* manual workflow: number of the step to execute next
    results,      \* the results object: entries in insertion order
    idx,          \* render loop: position in the job-name list
    htmlContent,  \* the HTML built so far, as a sequence of tokens
    console,      \* console.log lines of the report stage
    errorLog,     \* console.error entries
    error,        \* the error thrown to the outer catch, NoError if none
    ran,          \* agent.run / team.run / executeWorkflow calls made
    failedJob,    \* job whose agent.run threw, NoJob if none
    written,      \* number of fs.writeFile calls that completed
    opened,       \* number of open() calls that completed
    tzIn,         \* titleize: the identifier given
    tzOut,        \* titleize: the string returned
    tzDone        \* titleize: the call has returned

vars == <<script, apiKey, configOk, briefs, argBrief, teamPresent, agents,
          workflow, pc, step, results, idx, htmlContent, console, errorLog,
          error, ran, failedJob, written, opened, tzIn, tzOut, tzDone>>

(***************************************************************************)
(* Bounds                                                                  *)
(***************************************************************************)
\* longest team.workflow list read from the configuration
MaxWorkflow == 2
\* most agents missing from a configuration (besides the empty configuration)
MaxAbsent == 2
\* longest identifier given to titleize
MaxLen == 4

(***************************************************************************)
(* Strings                                                                 *)
(***************************************************************************)
UpperCase == {"A", "B", "C", "D", "E", "F", "G", "H", "I", "J", "K", "L", "M",
              "N", "O", "P", "Q", "R", "S", "T", "U", "V", "W", "X", "Y", "Z"}

WhiteSpace == {" ", "\t", "\n"}

S_planGoals == <<"p", "l", "a", "n", "G", "o", "a", "l", "s">>
S_suggestDestinations == <<"s", "u", "g", "g", "e", "s", "t", "D", "e", "s", "t", "i", "n", "a", "t", "i", "o", "n", "s">>
S_researchDestinations == <<"r", "e", "s", "e", "a", "r", "c", "h", "D", "e", "s", "t", "i", "n", "a", "t", "i", "o", "n", "s">>
S_findAccommodations == <<"f", "i", "n", "d", "A", "c", "c", "o", "m", "m", "o", "d", "a", "t", "i", "o", "n", "s">>
S_findTransportation == <<"f", "i", "n", "d", "T", "r", "a", "n", "s", "p", "o", "r", "t", "a", "t", "i", "o", "n">>
S_planActivities == <<"p", "l", "a", "n", "A", "c", "t", "i", "v", "i", "t", "i", "e", "s">>
S_planDining == <<"p", "l", "a", "n", "D", "i", "n", "i", "n", "g">>
S_createBudget == <<"c", "r", "e", "a", "t", "e", "B", "u", "d", "g", "e", "t">>
S_createItinerary == <<"c", "r", "e", "a", "t", "e", "I", "t", "i", "n", "e", "r", "a", "r", "y">>
S_reviewPlan == <<"r", "e", "v", "i", "e", "w", "P", "l", "a", "n">>
\* a job name a configuration may declare that is not one of the ten above
S_packBags == <<"p", "a", "c", "k", "B", "a", "g", "s">>
\* an identifier with a run of several uppercase letters
S_parseHTMLPage == <<"p", "a", "r", "s", "e", "H", "T", "M", "L", "P", "a", "g", "e">>

\* String.prototype.trim: whitespace removed at both ends
RECURSIVE TrimStart(_)
TrimStart(s) ==
    IF s = <<>> THEN <<>>
    ELSE IF Head(s) \in WhiteSpace THEN TrimStart(Tail(s)) ELSE s

RECURSIVE TrimEnd(_)
TrimEnd(s) ==
    IF s = <<>> THEN <<>>
    ELSE IF s[Len(s)] \in WhiteSpace THEN TrimEnd(SubSeq(s, 1, Len(s) - 1)) ELSE s

Trim(s) == TrimEnd(TrimStart(s))

\* replace(/([A-Z])/g, ' $1'): every match of one uppercase letter is replaced
\* by a space followed by that letter
RECURSIVE ReplaceUpper(_)
ReplaceUpper(s) ==
    IF s = <<>> THEN <<>>
    ELSE (IF Head(s) \in UpperCase THEN <<" ", Head(s)>> ELSE <<Head(s)>>)
         \o ReplaceUpper(Tail(s))

\* a titleize that treats a run of uppercase letters as one match
RECURSIVE ReplaceUpperRuns(_, _)
ReplaceUpperRuns(s, prevUpper) ==
    IF s = <<>> THEN <<>>
    ELSE (IF Head(s) \in UpperCase /\ ~prevUpper THEN <<" ", Head(s)>> ELSE <<Head(s)>>)
         \o ReplaceUpperRuns(Tail(s), Head(s) \in UpperCase)

TitleizeRuns(jobName) == Trim(ReplaceUpperRuns(jobName, FALSE))

\* jobName.replace(/([A-Z])/g, ' $1').trim()
Titleize(jobName) == Trim(ReplaceUpper(jobName))

\* Array.prototype.join
RECURSIVE Join(_, _)
Join(strs, sep) ==
    IF strs = <<>> THEN <<>>
    ELSE IF Len(strs) = 1 THEN strs[1]
    ELSE strs[1] \o sep \o Join(Tail(strs), sep)

Digit(d) == <<"0", "1", "2", "3", "4", "5", "6", "7", "8", "9">>[d + 1]

\* conversion of a non-negative integer to its decimal digits
RECURSIVE NatToString(_)
NatToString(n) ==
    IF n < 10 THEN <<Digit(n)>> ELSE NatToString(n \div 10) \o <<Digit(n % 10)>>

(***************************************************************************)
(* titleize as a function of its own                                       *)
(***************************************************************************)
TzAlphabet == {"a", "b", "B", "C", " ", "1"}

TzNamed == {S_planGoals, S_createBudget, <<"x">>, S_parseHTMLPage}

TzInputs == UNION {[1..n -> TzAlphabet] : n \in 0..MaxLen} \cup TzNamed

(***************************************************************************)
(* JavaScript values: a type tag, the text of a primitive, and the entries *)
(* of an object (string-valued properties, in the order they were set)     *)
(***************************************************************************)
Str(s) == [t |-> "string", s |-> s, o |-> <<>>]

Num(digits) == [t |-> "number", s |-> digits, o |-> <<>>]

Bool(b) == [t |-> "boolean",
            s |-> IF b THEN <<"t", "r", "u", "e">> ELSE <<"f", "a", "l", "s", "e">>,
            o |-> <<>>]

Null == [t |-> "null", s |-> <<"n", "u", "l", "l">>, o |-> <<>>]

Undefined == [t |-> "undefined",
              s |-> <<"u", "n", "d", "e", "f", "i", "n", "e", "d">>, o |-> <<>>]

Obj(entries) == [t |-> "object", s |-> <<>>, o |-> entries]

\* { error: 'Agent not found' }
ErrorSentinel ==
    Obj(<<[k |-> <<"e", "r", "r", "o", "r">>,
           v |-> <<"A", "g", "e", "n", "t", " ", "n", "o", "t", " ", "f", "o", "u", "n", "d">>]>>)

\* the text an agent returns
AgentText == Str(<<"A">>)

\* values the external workflow runner may put in the results object
Values == {Str(<<>>), AgentText, Num(<<"0">>), Num(<<"5">>), Bool(FALSE), Null,
           ErrorSentinel}

\* ToBoolean, as applied by if (results[jobName])
Truthy(v) ==
    CASE v.t = "string" -> v.s # <<>>
      [] v.t = "number" -> v.s \notin {<<"0">>, <<"N", "a", "N">>}
      [] v.t = "boolean" -> v.s = <<"t", "r", "u", "e">>
      [] v.t = "object" -> TRUE
      [] OTHER -> FALSE

\* typeof v === 'object'
TypeofObject(v) == v.t \in {"object", "null"}

\* JSON.stringify(v, null, 2) of an object with string-valued properties
JSONStringify(v) ==
    IF v.t = "null" THEN <<"n", "u", "l", "l">>
    ELSE IF v.o = <<>> THEN <<"{", "}">>
    ELSE LET line(e) == <<" ", " ", "\"">> \o e.k \o <<"\"", ":", " ", "\"">> \o e.v \o <<"\"">>
             lines == [i \in 1..Len(v.o) |-> line(v.o[i])]
         IN  <<"{", "\n">> \o Join(lines, <<",", "\n">>) \o <<"\n", "}">>

\* a result kept as returned: no serialization, even of an object
StringifyResultRaw(v) == v

\* typeof v === 'object' ? JSON.stringify(v, null, 2) : v
StringifyResult(v) == IF TypeofObject(v) THEN Str(JSONStringify(v)) ELSE v

\* `${v}` in a template literal
ToStr(v) ==
    IF v.t = "object"
    THEN <<"[", "o", "b", "j", "e", "c", "t", " ", "O", "b", "j", "e", "c", "t", "]">>
    ELSE v.s

\* `${v.length}` in a template literal: only a string has a length
LengthOf(v) ==
    IF v.t = "string" THEN NatToString(Len(v.s))
    ELSE <<"u", "n", "d", "e", "f", "i", "n", "e", "d">>

(***************************************************************************)
(* The results object: entries [k, v] in insertion order                   *)
(***************************************************************************)
HasKey(res, k) == \E i \in 1..Len(res) : res[i].k = k

\* results[k]
Get(res, k) ==
    IF HasKey(res, k) THEN res[CHOOSE i \in 1..Len(res) : res[i].k = k].v
    ELSE Undefined

\* results[k] = v
SetResult(res, k, v) ==
    IF HasKey(res, k)
    THEN [i \in 1..Len(res) |-> IF res[i].k = k THEN [k |-> k, v |-> v] ELSE res[i]]
    ELSE Append(res, [k |-> k, v |-> v])

\* a key listing that runs from the newest entry to the oldest
KeysReversed(res) == [i \in 1..Len(res) |-> res[Len(res) + 1 - i].k]

\* Object.keys(results)
Keys(res) == [i \in 1..Len(res) |-> res[i].k]

(***************************************************************************)
(* The HTML document, as the sequence of tokens the templates append.      *)
(* Fixed text of the templates is kept as one element per phrase; text     *)
(* interpolated into a template is character by character.                 *)
(***************************************************************************)
Open(tag, cls) == [k |-> "open", tag |-> tag, cls |-> cls, s |-> <<>>]

Close(tag) == [k |-> "close", tag |-> tag, cls |-> "", s |-> <<>>]

Void(tag) == [k |-> "void", tag |-> tag, cls |-> "", s |-> <<>>]

Text(s) == [k |-> "text", tag |-> "", cls |-> "", s |-> s]

NL == Text(<<"\n">>)

WarningBody ==
    <<"W", "A", "R", "N", "I", "N", "G", ":", " ", "N", "o", " ", "r", "e", "s",
      "u", "l", "t", "s", " ", "f", "o", "u", "n", "d", " ", "f", "o", "r", " ",
      "t", "h", "i", "s", " ", "s", "t", "e", "p", ".">>

\* the opening template of htmlContent, up to the paragraph listing the keys
HeaderHtml(res) ==
    << Void("!DOCTYPE"), NL, Open("html", ""), NL, Open("head", ""), NL,
       Void("meta"), NL,
       Open("title", ""), Text(<<"Vacation Planning Results">>), Close("title"), NL,
       Open("style", ""), Text(<<"body h1 h2 pre .warning rules">>), Close("style"), NL,
       Close("head"), NL, Open("body", ""), NL,
       Open("h1", ""), Text(<<"Vacation Planning Results">>), Close("h1"), NL,
       Open("p", ""), Open("strong", ""), Text(<<"Results object contains keys:">>),
       Close("strong"),
       Text(<<" ", "[", " ">> \o Join(Keys(res), <<",", " ">>) \o <<" ", "]">>),
       Close("p"), NL >>

\* the template appended for a job whose result is truthy
SuccessHtml(title, len, body) ==
    << Open("h2", ""), Text(title), Text(<<" ">>), Open("span", ""),
       Text(<<"(", "l", "e", "n", "g", "t", "h", ":", " ">> \o len
            \o <<" ", "c", "h", "a", "r", "a", "c", "t", "e", "r", "s", ")">>),
       Close("span"), Close("h2"), NL,
       Open("pre", ""), Text(body), Close("pre"), NL >>

\* a warning template that appends nothing
WarningHtmlNone(title) == << >>

\* the template appended for a job whose result is falsy or missing
WarningHtml(title) ==
    << Open("h2", ""), Text(title), Close("h2"), NL,
       Open("p", "warning"), Text(WarningBody), Close("p"), NL >>

\* the closing template of vp8.js
FooterVp8 == << Close("div"), Close("body"), Close("html") >>

\* the closing template of vp9.js
FooterVp9 == << Close("body"), NL, Close("html") >>

(***************************************************************************)
(* Reading the document back: its sections, in document order              *)
(***************************************************************************)
\* positions of the <h2> tokens, in increasing order
RECURSIVE H2From(_, _)
H2From(html, i) ==
    IF i > Len(html) THEN <<>>
    ELSE (IF html[i].k = "open" /\ html[i].tag = "h2" THEN <<i>> ELSE <<>>)
         \o H2From(html, i + 1)

H2Positions(html) == H2From(html, 1)

\* position of the first </h2> at or after position i
RECURSIVE H2End(_, _)
H2End(html, i) ==
    IF i > Len(html) THEN 0
    ELSE IF html[i].k = "close" /\ html[i].tag = "h2" THEN i
    ELSE H2End(html, i + 1)

\* the section whose heading opens at position p: the heading's first text,
\* and the element that follows the heading (after the line break)
SectionAt(html, p) ==
    LET e == H2End(html, p)
        el == html[e + 2]
    IN  [title |-> html[p + 1].s,
         warning |-> (el.tag = "p" /\ el.cls = "warning"),
         body |-> html[e + 3].s]

Sections(html) ==
    LET ps == H2Positions(html)
    IN  [i \in 1..Len(ps) |-> SectionAt(html, ps[i])]

SectionTitles(html) ==
    LET secs == Sections(html)
    IN  [i \in 1..Len(secs) |-> secs[i].title]

(***************************************************************************)
(* Console lines of the report stage                                       *)
(***************************************************************************)
\* console.log('Results object contains keys:', Object.keys(results))
KeysLine(res) ==
    <<"Results object contains keys: ">> \o
    (IF res = <<>> THEN <<"[", "]">>
     ELSE <<"[", " ">>
          \o Join([i \in 1..Len(res) |-> <<"'">> \o res[i].k \o <<"'">>], <<",", " ">>)
          \o <<" ", "]">>)

\* the three lines logged for a job whose result is truthy
SuccessLines(title, len, text) ==
    << title \o <<" ", "(", "l", "e", "n", "g", "t", "h", ":", " ">> \o len
             \o <<" ", "c", "h", "a", "r", "a", "c", "t", "e", "r", "s", ")", ":">>,
       text,
       <<"\n">> >>

WarningPrefix == <<"W", "A", "R", "N", "I", "N", "G", ":", " ", "N", "o", " ">>

\* console.log(`WARNING: No ${jobName} results found!`)
WarningLine(jobName) ==
    WarningPrefix \o jobName
    \o <<" ", "r", "e", "s", "u", "l", "t", "s", " ", "f", "o", "u", "n", "d", "!">>

(***************************************************************************)
(* What the scripts fix                                                    *)
(***************************************************************************)
Scripts == {"vp8", "vp9team", "vp9manual", "runAgent"}

\* the brief every script asks for
DefaultBrief == "st-pete-clearwater-trip-001"

\* a brief identifier given on the command line
OtherBrief == "other-trip"

\* process.argv[2] not given
NoArg == ""

BriefIds == {DefaultBrief, OtherBrief}

NoError == "none"

NoJob == <<>>

\* const jobNames = [...] of vp8.js
jobNames ==
    << S_planGoals, S_suggestDestinations, S_researchDestinations,
       S_findAccommodations, S_findTransportation, S_planActivities,
       S_planDining, S_createBudget, S_createItinerary, S_reviewPlan >>

\* the job assigned by each of the ten manual steps
StepJob == jobNames

\* the agent each manual step looks up
StepAgent ==
    << "goalPlanner", "destinationSuggester", "destinationResearcher",
       "accommodationAgent", "transportAgent", "activityPlanner", "diningAgent",
       "budgetingAgent", "itineraryCoordinator", "reviewAndRefineAgent" >>

\* the results each manual step reads to build its input
StepReads ==
    << << >>,
       << S_planGoals >>,
       << S_planGoals, S_suggestDestinations >>,
       << S_planGoals, S_researchDestinations >>,
       << S_planGoals, S_researchDestinations >>,
       << S_planGoals, S_researchDestinations >>,
       << S_planGoals, S_researchDestinations >>,
       << S_planGoals, S_researchDestinations, S_findAccommodations,
          S_findTransportation, S_planActivities, S_planDining >>,
       << S_planGoals, S_researchDestinations, S_findAccommodations,
          S_findTransportation, S_planActivities, S_planDining, S_createBudget >>,
       << S_planGoals, S_researchDestinations, S_findAccommodations,
          S_findTransportation, S_planActivities, S_planDining, S_createBudget,
          S_createItinerary >> >>

NumSteps == Len(StepJob)

AgentIds == {StepAgent[i] : i \in 1..NumSteps}

(***************************************************************************)
(* What the environment supplies                                           *)
(***************************************************************************)
\* job names a configuration may declare
Pool == {S_planGoals, S_packBags}

Workflows == UNION {[1..n -> Pool] : n \in 0..MaxWorkflow}

\* workflow lists given to the scripts that do not run the workflow from the
\* list: vp8.js only copies it into the definition handed to executeWorkflow,
\* the manual script of vp9.js only walks it when rendering
FixedWorkflows == {<<>>, <<S_planGoals>>, <<S_packBags, S_planGoals>>}

\* configurations with few agents missing, and the one with none present
AgentSets == {A \in SUBSET AgentIds : Cardinality(AgentIds \ A) <= MaxAbsent} \cup {{}}

\* results objects the external workflow runner may return
ResultsObjects ==
    {r \in UNION {[1..n -> [k : Pool, v : Values]] : n \in 0..Cardinality(Pool)} :
        \A i, j \in 1..Len(r) : r[i].k = r[j].k => i = j}

(***************************************************************************)
(* Initial state: a script about to run, its environment and configuration *)
(***************************************************************************)
TzIdle == tzIn = <<>> /\ tzOut = <<>> /\ tzDone = FALSE

Init ==
    /\ script \in Scripts
    /\ apiKey \in BOOLEAN
    /\ configOk \in BOOLEAN
    /\ briefs \in (IF ~configOk \/ script = "runAgent" THEN {{}}
                   ELSE IF script = "vp8" THEN SUBSET BriefIds
                   ELSE SUBSET {DefaultBrief})
    /\ argBrief \in (IF script = "vp8" THEN {NoArg, OtherBrief} ELSE {NoArg})
    /\ teamPresent \in (IF configOk /\ script # "runAgent" THEN BOOLEAN ELSE {FALSE})
    /\ workflow \in (IF ~teamPresent THEN {<<>>}
                     ELSE IF script \in {"vp8", "vp9manual"} THEN FixedWorkflows
                     ELSE Workflows)
    /\ agents \in (IF ~configOk THEN {{}}
                   ELSE IF script \in {"vp9manual", "runAgent"} THEN AgentSets
                   ELSE {AgentIds})
    /\ pc = "start"
    /\ step = 1
    /\ results = <<>>
    /\ idx = 1
    /\ htmlContent = <<>>
    /\ console = <<>>
    /\ errorLog = <<>>
    /\ error = NoError
    /\ ran = <<>>
    /\ failedJob = NoJob
    /\ written = 0
    /\ opened = 0
    /\ TzIdle

(***************************************************************************)
(* Exceptions: a throw inside main's try block transfers to its catch      *)
(***************************************************************************)
Raise(kind) == pc' = "catch" /\ error' = kind

Goto(label) == pc' = label /\ error' = error

\* the list the render loop iterates: jobNames in vp8.js, the configured
\* workflow in vp9.js
RenderList == IF script = "vp8" THEN jobNames ELSE workflow

\* the identifier of the brief the script looks up
BriefId == IF script = "vp8" /\ argBrief # NoArg THEN argBrief ELSE DefaultBrief

(***************************************************************************)
(* Start-up                                                                *)
(***************************************************************************)
\* if (!GEMINI_API_KEY) throw ...; then the factories are created
CheckCredential ==
    /\ pc = "start"
    /\ script \in {"vp8", "vp9team", "vp9manual"}
    /\ IF ~apiKey THEN Raise("credential") ELSE Goto("load")
    /\ UNCHANGED <<script, apiKey, configOk, briefs, argBrief, teamPresent, agents,
                   workflow, step, results, idx, htmlContent, console, errorLog,
                   ran, failedJob, written, opened, tzIn, tzOut, tzDone>>

\* runAgent: the factory is created with whatever keys the environment has;
\* the library, not the script, decides whether an unset key is an error
CreateFactory ==
    /\ pc = "start"
    /\ script = "runAgent"
    /\ \/ Goto("load")
       \/ ~apiKey /\ Raise("credential")
    /\ UNCHANGED <<script, apiKey, configOk, briefs, argBrief, teamPresent, agents,
                   workflow, step, results, idx, htmlContent, console, errorLog,
                   ran, failedJob, written, opened, tzIn, tzOut, tzDone>>

\* loadAgencyFromFile / JSON.parse(readFile) / loadConfig, then createAgents
LoadConfig ==
    /\ pc = "load"
    /\ IF ~configOk THEN Raise("config")
       ELSE Goto(CASE script = "vp8" -> "checkBrief"
                   [] script = "vp9team" -> "checkBrief"
                   [] script = "vp9manual" -> "getWorkflow"
                   [] script = "runAgent" -> "agent")
    /\ UNCHANGED <<script, apiKey, configOk, briefs, argBrief, teamPresent, agents,
                   workflow, step, results, idx, htmlContent, console, errorLog,
                   ran, failedJob, written, opened, tzIn, tzOut, tzDone>>

\* if (!agency.brief[briefId]) throw ...
CheckBrief ==
    /\ pc = "checkBrief"
    /\ IF BriefId \notin briefs THEN Raise("brief")
       ELSE Goto(IF script = "vp8" THEN "getWorkflow" ELSE "checkTeam")
    /\ UNCHANGED <<script, apiKey, configOk, briefs, argBrief, teamPresent, agents,
                   workflow, step, results, idx, htmlContent, console, errorLog,
                   ran, failedJob, written, opened, tzIn, tzOut, tzDone>>

\* if (!agency.team[teamName]) throw ...
CheckTeam ==
    /\ pc = "checkTeam"
    /\ IF ~teamPresent THEN Raise("team") ELSE Goto("runWorkflow")
    /\ UNCHANGED <<script, apiKey, configOk, briefs, argBrief, teamPresent, agents,
                   workflow, step, results, idx, htmlContent, console, errorLog,
                   ran, failedJob, written, opened, tzIn, tzOut, tzDone>>

\* team.workflow is read off the vacationTeam entry without a check: a
\* missing entry is a TypeError thrown to the catch
GetWorkflow ==
    /\ pc = "getWorkflow"
    /\ IF ~teamPresent THEN Raise("team")
       ELSE Goto(IF script = "vp8" THEN "runWorkflow" ELSE "steps")
    /\ UNCHANGED <<script, apiKey, configOk, briefs, argBrief, teamPresent, agents,
                   workflow, step, results, idx, htmlContent, console, errorLog,
                   ran, failedJob, written, opened, tzIn, tzOut, tzDone>>

(***************************************************************************)
(* The workflow run by the external library (vp8.js, first script of       *)
(* vp9.js)                                                                 *)
(***************************************************************************)
WorkflowCall == [job |-> <<"workflow">>, reads |-> <<>>, unset |-> {}]

\* await agency.executeWorkflow(...) / await team.run(...) returns
RunWorkflowOk ==
    /\ pc = "runWorkflow"
    /\ \E r \in ResultsObjects : results' = r
    /\ ran' = Append(ran, WorkflowCall)
    /\ Goto("header")
    /\ UNCHANGED <<script, apiKey, configOk, briefs, argBrief, teamPresent, agents,
                   workflow, step, idx, htmlContent, console, errorLog,
                   failedJob, written, opened, tzIn, tzOut, tzDone>>

\* await agency.executeWorkflow(...) / await team.run(...) rejects
RunWorkflowFail ==
    /\ pc = "runWorkflow"
    /\ ran' = Append(ran, WorkflowCall)
    /\ Raise("agent")
    /\ UNCHANGED <<script, apiKey, configOk, briefs, argBrief, teamPresent, agents,
                   workflow, step, results, idx, htmlContent, console, errorLog,
                   failedJob, written, opened, tzIn, tzOut, tzDone>>

(***************************************************************************)
(* The manual ten-step workflow (second script of vp9.js)                  *)
(***************************************************************************)
\* a step whose input also reads the result of the job that comes after it
StepCallAhead(n) ==
    LET reads == StepReads[n] \o (IF n < NumSteps THEN <<StepJob[n + 1]>> ELSE <<>>)
    IN  [job |-> StepJob[n],
         reads |-> reads,
         unset |-> {reads[i] : i \in 1..Len(reads)}
                   \ {results[i].k : i \in 1..Len(results)}]

\* the call recorded for the step: the job, the results its input reads, and
\* those of them not yet assigned
StepCall(n) ==
    [job |-> StepJob[n],
     reads |-> StepReads[n],
     unset |-> {StepReads[n][i] : i \in 1..Len(StepReads[n])}
               \ {results[i].k : i \in 1..Len(results)}]

\* a workflow that goes to the report as soon as the ninth step is done
AdvanceEarly(n) ==
    /\ step' = n + 1
    /\ Goto(IF n >= NumSteps - 1 THEN "header" ELSE "steps")

\* after step n: the next step, or the report once the tenth is done
Advance(n) ==
    /\ step' = n + 1
    /\ Goto(IF n = NumSteps THEN "header" ELSE "steps")

\* an else branch that only logs, leaving the job without an entry
AbsentResultSkip(res, job) == res

\* results.<job> = { error: 'Agent not found' }
AbsentResult(res, job) == SetResult(res, job, ErrorSentinel)

\* if (agent) { results.<job> = await agent.run(JSON.stringify(input)) }
StepRunOk ==
    /\ pc = "steps"
    /\ StepAgent[step] \in agents
    /\ ran' = Append(ran, StepCall(step))
    /\ results' = SetResult(results, StepJob[step], AgentText)
    /\ Advance(step)
    /\ UNCHANGED <<script, apiKey, configOk, briefs, argBrief, teamPresent, agents,
                   workflow, idx, htmlContent, console, errorLog,
                   failedJob, written, opened, tzIn, tzOut, tzDone>>

\* if (agent) { ... await agent.run(...) rejects: nothing around the call
\* catches it, so it is thrown to the catch of main
StepRunFail ==
    /\ pc = "steps"
    /\ StepAgent[step] \in agents
    /\ ran' = Append(ran, StepCall(step))
    /\ failedJob' = StepJob[step]
    /\ Raise("agent")
    /\ UNCHANGED <<script, apiKey, configOk, briefs, argBrief, teamPresent, agents,
                   workflow, step, results, idx, htmlContent, console, errorLog,
                   written, opened, tzIn, tzOut, tzDone>>

\* else { console.error(...not found...); results.<job> = { error: ... } }
StepAgentAbsent ==
    /\ pc = "steps"
    /\ StepAgent[step] \notin agents
    /\ errorLog' = Append(errorLog, [kind |-> "agentNotFound", what |-> StepAgent[step]])
    /\ results' = AbsentResult(results, StepJob[step])
    /\ Advance(step)
    /\ UNCHANGED <<script, apiKey, configOk, briefs, argBrief, teamPresent, agents,
                   workflow, idx, htmlContent, console, ran,
                   failedJob, written, opened, tzIn, tzOut, tzDone>>

(***************************************************************************)
(* The single-agent script (runAgent)                                      *)
(***************************************************************************)
SingleCall == [job |-> S_planGoals, reads |-> <<>>, unset |-> {}]

\* if (goalPlanner) { const result = await goalPlanner.run(...) }
SingleRunOk ==
    /\ pc = "agent"
    /\ "goalPlanner" \in agents
    /\ ran' = Append(ran, SingleCall)
    /\ Goto("done")
    /\ UNCHANGED <<script, apiKey, configOk, briefs, argBrief, teamPresent, agents,
                   workflow, step, results, idx, htmlContent, console, errorLog,
                   failedJob, written, opened, tzIn, tzOut, tzDone>>

\* if (goalPlanner) { ... await goalPlanner.run(...) rejects
SingleRunFail ==
    /\ pc = "agent"
    /\ "goalPlanner" \in agents
    /\ ran' = Append(ran, SingleCall)
    /\ failedJob' = S_planGoals
    /\ Raise("agent")
    /\ UNCHANGED <<script, apiKey, configOk, briefs, argBrief, teamPresent, agents,
                   workflow, step, results, idx, htmlContent, console, errorLog,
                   written, opened, tzIn, tzOut, tzDone>>

\* else { console.error('Agent "goalPlanner" not found ...') }
SingleAgentAbsent ==
    /\ pc = "agent"
    /\ "goalPlanner" \notin agents
    /\ errorLog' = Append(errorLog, [kind |-> "agentNotFound", what |-> "goalPlanner"])
    /\ Goto("done")
    /\ UNCHANGED <<script, apiKey, configOk, briefs, argBrief, teamPresent, agents,
                   workflow, step, results, idx, htmlContent, console, ran,
                   failedJob, written, opened, tzIn, tzOut, tzDone>>

(***************************************************************************)
(* The report                                                              *)
(***************************************************************************)
\* the keys line on the console and the opening template of htmlContent
PrintHeader ==
    /\ pc = "header"
    /\ console' = Append(console, KeysLine(results))
    /\ htmlContent' = HeaderHtml(results)
    /\ idx' = 1
    /\ Goto("render")
    /\ UNCHANGED <<script, apiKey, configOk, briefs, argBrief, teamPresent, agents,
                   workflow, step, results, errorLog, ran,
                   failedJob, written, opened, tzIn, tzOut, tzDone>>

\* a loop that walks the list from its end
NextJobNameReversed(list, i) == list[Len(list) + 1 - i]

\* for (const jobName of list): the name taken by the i-th iteration
NextJobName(list, i) == list[i]

\* if (results[jobName]) { ... }: the branch of a truthy result
RenderPresent ==
    /\ pc = "render"
    /\ idx <= Len(RenderList)
    /\ LET jobName == NextJobName(RenderList, idx)
           resultText == StringifyResult(Get(results, jobName))
           title == Titleize(jobName)
       IN  /\ Truthy(Get(results, jobName))
           /\ console' = console \o SuccessLines(title, LengthOf(resultText), ToStr(resultText))
           /\ htmlContent' = htmlContent
                             \o SuccessHtml(title, LengthOf(resultText), ToStr(resultText))
    /\ idx' = idx + 1
    /\ Goto("render")
    /\ UNCHANGED <<script, apiKey, configOk, briefs, argBrief, teamPresent, agents,
                   workflow, step, results, errorLog, ran,
                   failedJob, written, opened, tzIn, tzOut, tzDone>>

\* else { ... }: the branch of a result that is missing or falsy
RenderAbsent ==
    /\ pc = "render"
    /\ idx <= Len(RenderList)
    /\ LET jobName == NextJobName(RenderList, idx)
       IN  /\ ~Truthy(Get(results, jobName))
           /\ console' = Append(console, WarningLine(jobName))
           /\ htmlContent' = htmlContent \o WarningHtml(Titleize(jobName))
    /\ idx' = idx + 1
    /\ Goto("render")
    /\ UNCHANGED <<script, apiKey, configOk, briefs, argBrief, teamPresent, agents,
                   workflow, step, results, errorLog, ran,
                   failedJob, written, opened, tzIn, tzOut, tzDone>>

\* the loop is over: the closing template is appended
RenderClose ==
    /\ pc = "render"
    /\ idx > Len(RenderList)
    /\ htmlContent' = htmlContent \o (IF script = "vp8" THEN FooterVp8 ELSE FooterVp9)
    /\ Goto("write")
    /\ UNCHANGED <<script, apiKey, configOk, briefs, argBrief, teamPresent, agents,
                   workflow, step, results, idx, console, errorLog, ran,
                   failedJob, written, opened, tzIn, tzOut, tzDone>>

\* await fs.writeFile(resultsFilePath, htmlContent, 'utf8') completes
WriteOk ==
    /\ pc = "write"
    /\ written' = written + 1
    /\ console' = Append(console, <<"Results saved to the results file">>)
    /\ Goto("open")
    /\ UNCHANGED <<script, apiKey, configOk, briefs, argBrief, teamPresent, agents,
                   workflow, step, results, idx, htmlContent, errorLog, ran,
                   failedJob, opened, tzIn, tzOut, tzDone>>

\* a write whose failure is noted but does not stop the viewer from being opened
WriteFailContinue ==
    /\ pc = "write"
    /\ pc' = "open"
    /\ error' = "write"
    /\ UNCHANGED <<script, apiKey, configOk, briefs, argBrief, teamPresent, agents,
                   workflow, step, results, idx, htmlContent, console, errorLog, ran,
                   failedJob, written, opened, tzIn, tzOut, tzDone>>

\* await fs.writeFile(...) rejects
WriteFail ==
    /\ pc = "write"
    /\ Raise("write")
    /\ UNCHANGED <<script, apiKey, configOk, briefs, argBrief, teamPresent, agents,
                   workflow, step, results, idx, htmlContent, console, errorLog, ran,
                   failedJob, written, opened, tzIn, tzOut, tzDone>>

\* await open(resultsFilePath) completes
OpenOk ==
    /\ pc = "open"
    /\ opened' = opened + 1
    /\ console' = Append(console, <<"Vacation planning workflow completed successfully!">>)
    /\ Goto("done")
    /\ UNCHANGED <<script, apiKey, configOk, briefs, argBrief, teamPresent, agents,
                   workflow, step, results, idx, htmlContent, errorLog, ran,
                   failedJob, written, tzIn, tzOut, tzDone>>

\* await open(resultsFilePath) rejects
OpenFail ==
    /\ pc = "open"
    /\ Raise("open")
    /\ UNCHANGED <<script, apiKey, configOk, briefs, argBrief, teamPresent, agents,
                   workflow, step, results, idx, htmlContent, console, errorLog, ran,
                   failedJob, written, opened, tzIn, tzOut, tzDone>>

\* a catch that logs and then carries on with the write
CatchErrorResume ==
    /\ pc = "catch"
    /\ errorLog' = Append(errorLog, [kind |-> "caught", what |-> error])
    /\ Goto("write")
    /\ UNCHANGED <<script, apiKey, configOk, briefs, argBrief, teamPresent, agents,
                   workflow, step, results, idx, htmlContent, console, ran,
                   failedJob, written, opened, tzIn, tzOut, tzDone>>

\* catch (error) { console.error(...); [vp9.js: the provider's payload, if the
\* error carries one] }: main returns
CatchError ==
    /\ pc = "catch"
    /\ \E details \in (IF error = "agent" /\ script \in {"vp9team", "vp9manual"}
                       THEN BOOLEAN ELSE {FALSE}) :
          errorLog' = Append(errorLog, [kind |-> "caught", what |-> error])
                      \o (IF details THEN <<[kind |-> "details", what |-> error]>> ELSE <<>>)
    /\ Goto("failed")
    /\ UNCHANGED <<script, apiKey, configOk, briefs, argBrief, teamPresent, agents,
                   workflow, step, results, idx, htmlContent, console, ran,
                   failedJob, written, opened, tzIn, tzOut, tzDone>>

Next ==
    \/ CheckCredential
    \/ CreateFactory
    \/ LoadConfig
    \/ CheckBrief
    \/ CheckTeam
    \/ GetWorkflow
    \/ RunWorkflowOk
    \/ RunWorkflowFail
    \/ StepRunOk
    \/ StepRunFail
    \/ StepAgentAbsent
    \/ SingleRunOk
    \/ SingleRunFail
    \/ SingleAgentAbsent
    \/ PrintHeader
    \/ RenderPresent
    \/ RenderAbsent
    \/ RenderClose
    \/ WriteOk
    \/ WriteFail
    \/ OpenOk
    \/ OpenFail
    \/ CatchError

Spec == Init /\ [][Next]_vars

(***************************************************************************)
(* titleize applied to one identifier                                      *)
(***************************************************************************)
TzInit ==
    /\ script = "none"
    /\ apiKey = FALSE
    /\ configOk = FALSE
    /\ briefs = {}
    /\ argBrief = NoArg
    /\ teamPresent = FALSE
    /\ agents = {}
    /\ workflow = <<>>
    /\ pc = "titleize"
    /\ step = 1
    /\ results = <<>>
    /\ idx = 1
    /\ htmlContent = <<>>
    /\ console = <<>>
    /\ errorLog = <<>>
    /\ error = NoError
    /\ ran = <<>>
    /\ failedJob = NoJob
    /\ written = 0
    /\ opened = 0
    /\ tzIn \in TzInputs
    /\ tzOut = <<>>
    /\ tzDone = FALSE

\* the heading text of a job name, as both branches of the render loop compute it
TzApply ==
    /\ pc = "titleize"
    /\ ~tzDone
    /\ tzOut' = Titleize(tzIn)
    /\ tzDone' = TRUE
    /\ UNCHANGED <<script, apiKey, configOk, briefs, argBrief, teamPresent, agents,
                   workflow, pc, step, results, idx, htmlContent, console, errorLog,
                   error, ran, failedJob, written, opened, tzIn>>

TzNext == TzApply

TzSpec == TzInit /\ [][TzNext]_vars

(***************************************************************************)
(* Properties of the report                                                *)
(***************************************************************************)
\* the render loop has finished
RenderDone ==
    \/ pc \in {"write", "open", "done"}
    \/ pc \in {"catch", "failed"} /\ error \in {"write", "open"}

\* number of names of the list the render loop has processed
RenderedCount ==
    IF pc = "render" THEN idx - 1
    ELSE IF RenderDone THEN Len(RenderList)
    ELSE 0

IsPrefix(p, s) == Len(p) <= Len(s) /\ SubSeq(s, 1, Len(p)) = p

\* C1: the section titles of the HTML, success and warning sections together,
\* are the names of the ordered job-name list processed so far, each mapped
\* through titleize, in the order of the list, whatever the order of the
\* entries of results; once the loop is over, that is the whole list.
C1_SectionOrder ==
    SectionTitles(htmlContent)
        = [i \in 1..RenderedCount |-> Titleize(RenderList[i])]

\* C1 witness: a finished report whose results were inserted in the order
\* opposite to the workflow's
C1_Witness ==
    /\ script = "vp9team"
    /\ pc = "done"
    /\ workflow = <<S_planGoals, S_packBags>>
    /\ Keys(results) = <<S_packBags, S_planGoals>>

\* C2: in the finished report, the section of a name of the list is a warning
\* section exactly when results has no entry for that name: an entry whose
\* value is an empty string, 0, false or null gets a success section.
C2_FalsyIsPresent ==
    RenderDone =>
        LET secs == Sections(htmlContent)
        IN  /\ Len(secs) = Len(RenderList)
            /\ \A i \in 1..Len(RenderList) :
                  secs[i].warning <=> ~HasKey(results, RenderList[i])

\* C3: for every key of results, the finished report has exactly one
\* non-warning section for that name, titled titleize(name), whose body is
\* stringifyResult(results[name]).
C3_OneSectionPerKey ==
    RenderDone =>
        LET secs == Sections(htmlContent)
        IN  /\ Len(secs) = Len(RenderList)
            /\ \A n \in 1..Len(results) :
                  LET name == results[n].k
                      own == {i \in 1..Len(RenderList) :
                                 RenderList[i] = name /\ ~secs[i].warning}
                  IN  /\ Cardinality(own) = 1
                      /\ \A i \in own :
                            /\ secs[i].title = Titleize(name)
                            /\ secs[i].body = ToStr(StringifyResult(results[n].v))

C4_ClaimedBody ==
    <<"N", "o", " ", "r", "e", "s", "u", "l", "t", "s", " ", "f", "o", "u", "n",
      "d", " ", "f", "o", "r", " ", "t", "h", "i", "s", " ", "s", "t", "e", "p", ".">>

C4_ActualBody == <<"W", "A", "R", "N", "I", "N", "G", ":", " ">> \o C4_ClaimedBody

C5_TitleizedWarning ==
    RenderDone =>
        \A i \in 1..Len(RenderList) :
            ~HasKey(results, RenderList[i]) =>
                \E l \in 1..Len(console) :
                    IsPrefix(<<"W", "A", "R", "N", "I", "N", "G", ":", " ", "N", "o", " ">>
                             \o Titleize(RenderList[i]), console[l])

(***************************************************************************)
(* Properties of titleize                                                  *)
(***************************************************************************)
\* the identifier with one space put before each of its uppercase letters:
\* character i lands at position i + (number of uppercase letters up to i),
\* and every other position holds a space
C6_Spaced(s) ==
    LET ups(i) == Cardinality({j \in 1..i : s[j] \in UpperCase})
        n == Len(s) + ups(Len(s))
    IN  [q \in 1..n |->
            IF \E i \in 1..Len(s) : i + ups(i) = q
            THEN s[CHOOSE i \in 1..Len(s) : i + ups(i) = q]
            ELSE " "]

\* the part of a string between its first and its last non-whitespace character
C6_Core(u) ==
    LET inked == {q \in 1..Len(u) : u[q] \notin WhiteSpace}
    IN  IF inked = {} THEN <<>>
        ELSE SubSeq(u, CHOOSE a \in inked : \A q \in inked : a <= q,
                       CHOOSE b \in inked : \A q \in inked : b >= q)

\* C6 as stated: titleize puts exactly one space before each maximal run of
\* consecutive uppercase letters, then trims; "parseHTMLPage" gets one space
\* before the run "HTMLP", not one per uppercase letter.
C6_Original ==
    tzDone =>
        /\ tzOut = TitleizeRuns(tzIn)
        /\ tzIn = S_parseHTMLPage =>
              tzOut = <<"p", "a", "r", "s", "e", " ", "H", "T", "M", "L", "P", "a", "g", "e">>

\* C6 amended: titleize puts exactly one space before each uppercase letter
\* A-Z, then trims whitespace at both ends; all other characters pass through
\* unchanged. So titleize("planGoals") = "plan Goals",
\* titleize("createBudget") = "create Budget", titleize("x") = "x", and
\* "parseHTMLPage" gets one space per uppercase letter: "parse H T M L Page".
C6_SpacePerUppercase ==
    tzDone =>
        /\ tzOut = C6_Core(C6_Spaced(tzIn))
        /\ tzIn = S_planGoals =>
              tzOut = <<"p", "l", "a", "n", " ", "G", "o", "a", "l", "s">>
        /\ tzIn = S_createBudget =>
              tzOut = <<"c", "r", "e", "a", "t", "e", " ", "B", "u", "d", "g", "e", "t">>
        /\ tzIn = <<"x">> => tzOut = <<"x">>
        /\ tzIn = S_parseHTMLPage =>
              tzOut = <<"p", "a", "r", "s", "e", " ", "H", " ", "T", " ", "M", " ", "L",
                        " ", "P", "a", "g", "e">>

\* C6 witness: titleize has returned for an identifier with a run of
\* uppercase letters
C6_Witness ==
    /\ tzDone
    /\ tzIn = S_parseHTMLPage
    /\ Len(tzOut) = Len(tzIn) + 5

(***************************************************************************)
(* Properties of error handling                                            *)
(***************************************************************************)
\* C7: when agent.run throws for a job of the manual workflow, the script
\* catches it locally: the job gets a sentinel object as its result and the
\* run goes on (it is not thrown to the catch of main, which ends the run
\* without a report).
C7_RunFailureRecovered ==
    (script = "vp9manual" /\ failedJob # NoJob) =>
        /\ HasKey(results, failedJob)
        /\ Get(results, failedJob).t = "object"
        /\ pc \notin {"catch", "failed"}

\* C8: in the manual workflow, a step whose agent is missing from the
\* configuration assigns the sentinel {error: 'Agent not found'} and raises
\* nothing: every step before the current one has an entry in results, the
\* sentinel when its agent is missing, and was run when its agent is present;
\* an abort during the steps comes only from the run of a present agent; and
\* after the tenth step results has exactly the ten job names as keys.
C8_AbsentAgentSentinel ==
    script = "vp9manual" =>
        /\ \A n \in 1..(step - 1) :
              /\ HasKey(results, StepJob[n])
              /\ StepAgent[n] \notin agents =>
                    Get(results, StepJob[n])
                        = Obj(<<[k |-> <<"e", "r", "r", "o", "r">>,
                                 v |-> <<"A", "g", "e", "n", "t", " ", "n", "o", "t", " ",
                                         "f", "o", "u", "n", "d">>]>>)
              /\ StepAgent[n] \in agents =>
                    \E c \in 1..Len(ran) : ran[c].job = StepJob[n]
        /\ (error = "agent" /\ step <= NumSteps) => StepAgent[step] \in agents
        /\ step = NumSteps + 1 =>
              {results[i].k : i \in 1..Len(results)} = {StepJob[n] : n \in 1..NumSteps}

\* C8 witness: the ten steps are over, the first agent was missing and a
\* later one was present and ran
C8_Witness ==
    /\ script = "vp9manual"
    /\ step = NumSteps + 1
    /\ "goalPlanner" \notin agents
    /\ "reviewAndRefineAgent" \in agents
    /\ \E c \in 1..Len(ran) : ran[c].job = S_reviewPlan
    /\ Get(results, S_planGoals) = ErrorSentinel

\* a condition the script turns into a thrown error before any job
FatalCondition ==
    \/ ~apiKey /\ script \in {"vp8", "vp9team", "vp9manual"}
    \/ ~configOk
    \/ script \in {"vp8", "vp9team"} /\ BriefId \notin briefs
    \/ script \in {"vp8", "vp9team", "vp9manual"} /\ ~teamPresent

FatalKinds == {"credential", "config", "brief", "team"}

C10_NoJobOnConfigError ==
    (\/ ~apiKey
     \/ script \in {"vp8", "vp9team", "vp9manual"}
        /\ (DefaultBrief \notin briefs \/ ~teamPresent)) =>
        /\ ran = <<>>
        /\ pc = "failed" => Len(errorLog) = 1

(***************************************************************************)
(* Properties of the order of work                                         *)
(***************************************************************************)
\* every job of the run has produced a result or been found without an agent:
\* the workflow call has returned, or the ten manual steps are over
C11_WorkflowOver ==
    IF script = "vp9manual"
    THEN /\ step = NumSteps + 1
         /\ \A n \in 1..NumSteps : HasKey(results, StepJob[n])
    ELSE /\ script \in {"vp8", "vp9team"}
         /\ Len(ran) = 1
         /\ pc \notin {"start", "load", "checkBrief", "checkTeam", "getWorkflow",
                       "runWorkflow"}

\* C11: nothing of the report exists while a job is still pending: whenever
\* htmlContent or the report's console transcript is non-empty, or the render
\* loop is at work, the workflow call has returned (vp8.js, first script of
\* vp9.js) or all ten manual steps have finished (second script of vp9.js).
C11_RenderAfterWorkflow ==
    (htmlContent # <<>> \/ console # <<>> \/ pc \in {"header", "render"})
        => C11_WorkflowOver

\* C11 witness: the manual workflow is rendering its first section, after its
\* tenth step
C11_Witness ==
    /\ script = "vp9manual"
    /\ pc = "render"
    /\ idx = 2
    /\ Len(Sections(htmlContent)) = 1
    /\ Len(ran) = NumSteps

(***************************************************************************)
(* Properties of the document                                              *)
(***************************************************************************)
\* reading the tokens from position i with the given stack of open tags: each
\* closing tag matches the innermost open tag, and none is left open
RECURSIVE C12_Balanced(_, _, _)
C12_Balanced(html, i, stack) ==
    IF i > Len(html) THEN stack = <<>>
    ELSE IF html[i].k = "open" THEN C12_Balanced(html, i + 1, <<html[i].tag>> \o stack)
    ELSE IF html[i].k = "close"
         THEN /\ stack # <<>>
              /\ Head(stack) = html[i].tag
              /\ C12_Balanced(html, i + 1, Tail(stack))
    ELSE C12_Balanced(html, i + 1, stack)

\* C12: the finished document is well formed: every closing tag matches the
\* most recently opened, still-open tag, and no tag is left open or closed
\* without having been opened, for every results object.
C12_WellFormed ==
    RenderDone => C12_Balanced(htmlContent, 1, <<>>)

\* the length annotation for a body: "(length: N characters)" with N the
\* number of characters of the body
C13_Annotation(body) ==
    <<"(", "l", "e", "n", "g", "t", "h", ":", " ">> \o NatToString(Len(body))
    \o <<" ", "c", "h", "a", "r", "a", "c", "t", "e", "r", "s", ")">>

\* C13: in the finished report, a present result that is text is rendered
\* unchanged, and for every present result the length annotation of its
\* section, in the HTML heading and in the console line, is the length of the
\* body rendered in that section.
C13_LengthMatchesBody ==
    RenderDone =>
        LET secs == Sections(htmlContent)
            ps == H2Positions(htmlContent)
        IN  \A i \in 1..Len(RenderList) :
                LET v == Get(results, RenderList[i])
                IN  Truthy(v) =>
                        /\ v.t = "string" => secs[i].body = v.s
                        /\ htmlContent[ps[i] + 4].s = C13_Annotation(secs[i].body)
                        /\ \E l \in 1..Len(console) :
                              console[l] = Titleize(RenderList[i]) \o <<" ">>
                                           \o C13_Annotation(secs[i].body) \o <<":">>

\* the first n entries of results listed by key, oldest first, each key
\* between the given quotes and the keys separated by ", "
RECURSIVE C14_Listed(_, _)
C14_Listed(n, quote) ==
    IF n = 0 THEN <<>>
    ELSE C14_Listed(n - 1, quote)
         \o (IF n > 1 THEN <<",", " ">> ELSE <<>>)
         \o quote \o results[n].k \o quote

\* the text of the header paragraph that follows its <strong> label
C14_HeaderText ==
    htmlContent[(CHOOSE i \in 1..Len(htmlContent) :
                    htmlContent[i].k = "close" /\ htmlContent[i].tag = "strong") + 1].s

\* C14: once the header is out, the console header line and the HTML header
\* paragraph list exactly the keys of results in the order they were inserted,
\* while the sections of the finished report follow the ordered job-name list.
C14_HeaderInsertionOrder ==
    htmlContent # <<>> =>
        /\ C14_HeaderText = <<" ", "[", " ">> \o C14_Listed(Len(results), <<>>) \o <<" ", "]">>
        /\ console[1] = <<"Results object contains keys: ">>
                        \o (IF results = <<>> THEN <<"[", "]">>
                            ELSE <<"[", " ">> \o C14_Listed(Len(results), <<"'">>)
                                 \o <<" ", "]">>)
        /\ RenderDone =>
              SectionTitles(htmlContent)
                  = [i \in 1..Len(RenderList) |-> Titleize(RenderList[i])]

\* C14 witness: a finished report whose header lists packBags before planGoals
\* and whose sections show plan Goals before pack Bags
C14_Witness ==
    /\ script = "vp9team"
    /\ pc = "done"
    /\ workflow = <<S_planGoals, S_packBags>>
    /\ Len(results) = 2
    /\ results[1].k = S_packBags
    /\ results[2].k = S_planGoals
    /\ C14_HeaderText = <<" ", "[", " ">> \o S_packBags \o <<",", " ">> \o S_planGoals
                        \o <<" ", "]">>
    /\ SectionTitles(htmlContent) = <<Titleize(S_planGoals), Titleize(S_packBags)>>

(***************************************************************************)
(* Properties of the report sink                                           *)
(***************************************************************************)
\* C15: the file is written and only then the viewer invoked: the viewer is
\* invoked (open pending, completed or failed) at most once and only after the
\* one write has completed; after a failed write the viewer is never invoked;
\* and a failed write or viewer ends in the catch, logged, with no further
\* write or retry.
C15_WriteThenOpen ==
    /\ written <= 1
    /\ opened <= 1
    /\ (pc = "open" \/ opened = 1 \/ error = "open") => written = 1
    /\ error = "open" => opened = 0
    /\ error = "write" => (written = 0 /\ opened = 0)
    /\ error \in {"write", "open"} =>
          /\ pc \in {"catch", "failed"}
          /\ pc = "failed" =>
                errorLog[Len(errorLog)] = [kind |-> "caught", what |-> error]

\* C15 witness: a run that wrote the file and then opened it
C15_Witness ==
    /\ pc = "done"
    /\ written = 1
    /\ opened = 1
    /\ htmlContent # <<>>

(***************************************************************************)
(* Properties of the manual workflow's order                               *)
(***************************************************************************)
C16_Order ==
    << S_planGoals, S_suggestDestinations, S_researchDestinations,
       S_findAccommodations, S_findTransportation, S_planActivities,
       S_planDining, S_createBudget, S_createItinerary, S_reviewPlan >>

C16_Pos(job) == CHOOSE n \in 1..Len(C16_Order) : C16_Order[n] = job

\* C16: in the manual workflow the agent.run calls are made one after another
\* in the order planGoals, ..., reviewPlan (a job whose agent is missing makes
\* no call), no call is made for a step not yet reached, and the input of each
\* call reads only results of jobs earlier in that order, all of them already
\* assigned when the call is made.
C16_SequentialInputs ==
    script = "vp9manual" =>
        /\ \A c \in 1..Len(ran) :
              /\ ran[c].job \in {C16_Order[n] : n \in 1..Len(C16_Order)}
              /\ C16_Pos(ran[c].job) <= step
              /\ C16_Pos(ran[c].job) = step => (failedJob = ran[c].job /\ c = Len(ran))
              /\ ran[c].unset = {}
              /\ \A r \in 1..Len(ran[c].reads) :
                    /\ C16_Pos(ran[c].reads[r]) < C16_Pos(ran[c].job)
                    /\ HasKey(results, ran[c].reads[r])
        /\ \A c, d \in 1..Len(ran) :
              c < d => C16_Pos(ran[c].job) < C16_Pos(ran[d].job)

\* C16 witness: all ten jobs have run, the last one reading the eight results
\* its input is built from
C16_Witness ==
    /\ script = "vp9manual"
    /\ step = NumSteps + 1
    /\ Len(ran) = NumSteps
    /\ ran[NumSteps].job = S_reviewPlan
    /\ Len(ran[NumSteps].reads) = 8
    /\ ran[NumSteps].unset = {}

====
